---------------------------- MODULE Spec2Model ----------------------------
(***************************************************************************)
(* Model of the bindings that the gl_generator strategies emit (Global,    *)
(* Struct, Debug-instrumented Struct) and of the text they emit for each   *)
(* command.  The runtime part (Spec) interprets the emitted templates: the *)
(* symbol resolution of load_with, the FnPtr slots, is_loaded and the      *)
(* command wrappers.  SpecStatic does so for the statically linked         *)
(* bindings, SpecConc runs the Global bindings on several threads, and     *)
(* SpecGen is a run of a generator's write() against its sink.             *)
(***************************************************************************)
EXTENDS Naturals, Sequences, FiniteSets, TLC

(***************************************************************************)
(* Bounds of the model.                                                    *)
(***************************************************************************)
\* number of fallback names registered for the aliased command of RegFallbacks
MaxFallbacks == 2

(***************************************************************************)
(* Registry data model (an already populated input of the generators).     *)
(***************************************************************************)
Param(ident, ty) == [ident |-> ident, ty |-> ty]

Cmd(ident, ty, params) == [proto |-> [ident |-> ident, ty |-> ty], params |-> params]

FallbackNames == << "BarEXT", "BarARB", "BarNV", "BarOES" >>

\* Bar has MaxFallbacks fallbacks, Foo returns no value.
RegFallbacks ==
    [api |-> "gl",
     enums |-> << "COLOR_BUFFER_BIT" >>,
     cmds |-> << Cmd("Bar", "types::GLint",
                     << Param("x", "types::GLint"), Param("y", "types::GLint") >>),
                 Cmd("Foo", "()", << >>) >>,
     aliases |-> [n \in {"Bar"} |-> SubSeq(FallbackNames, 1, MaxFallbacks)]]

\* A registry with the error-query command and no fallbacks; Baz takes a
\* callback.
RegGetError ==
    [api |-> "gl",
     enums |-> << "NO_ERROR" >>,
     cmds |-> << Cmd("Foo", "()", << >>),
                 Cmd("Baz", "types::GLint",
                     << Param("callback", "types::GLDEBUGPROC"),
                        Param("n", "types::GLint") >>),
                 Cmd("GetError", "types::GLenum", << >>) >>,
     aliases |-> [n \in {} |-> << >>]]

Registries == {RegFallbacks, RegGetError}

Range(s) == {s[i] : i \in 1..Len(s)}

CmdNames(reg) == {reg.cmds[i].proto.ident : i \in 1..Len(reg.cmds)}

CmdOf(reg, name) == CHOOSE c \in Range(reg.cmds) : c.proto.ident = name

IndexOf(reg, name) == CHOOSE i \in 1..Len(reg.cmds) : reg.cmds[i].proto.ident = name

(***************************************************************************)
(* Symbol and parameter naming (generators/mod.rs).                        *)
(***************************************************************************)
\* the lookup symbol of a command: the API's prefix followed by the name
gen_symbol_name(api, cmd) ==
    IF api = "glx" THEN "glX" \o cmd
    ELSE IF api = "wgl" THEN "wgl" \o cmd
    ELSE IF api = "egl" THEN "egl" \o cmd
    ELSE "gl" \o cmd

\* one entry per parameter, in the order of cmd.params; an entry is rendered
\* "ident: ty", "ident" or "ty", and is kept here as its two pieces
gen_parameters(cmd, with_idents, with_types) ==
    [i \in 1..Len(cmd.params) |->
        [ident |-> IF with_idents THEN cmd.params[i].ident ELSE "",
         ty |-> IF with_types THEN cmd.params[i].ty ELSE ""]]

\* every symbol a load may ask for: canonical and fallback names, decorated
AllSymbols(reg) ==
    {gen_symbol_name(reg.api, n) : n \in CmdNames(reg)}
    \cup UNION {{gen_symbol_name(reg.api, reg.aliases[n][k]) : k \in 1..Len(reg.aliases[n])} :
                  n \in DOMAIN reg.aliases}

(***************************************************************************)
(* Addresses.  A probe function answers a symbol name with the null        *)
(* pointer or with the address of that symbol.                             *)
(***************************************************************************)
NULL == "null"

AddrOf(sym) == "&" \o sym

missing_fn_panic == "&missing_fn_panic"

\* the probe functions: each resolves some subset of the symbols
ProbesOver(syms) ==
    {[s \in syms |-> IF s \in A THEN AddrOf(s) ELSE NULL] : A \in SUBSET syms}

ProbesFallbacks == ProbesOver(AllSymbols(RegFallbacks))

ProbesGetError == ProbesOver(AllSymbols(RegGetError))

Probes(reg) == IF reg = RegFallbacks THEN ProbesFallbacks ELSE ProbesGetError

\* the values a native entry point may return: the wrappers only ever test
\* a returned value against 0 (GetError's "no error")
NativeRets == {0, 1}

(***************************************************************************)
(* State.                                                                  *)
(***************************************************************************)
VARIABLES
    registry,    \* the registry the bindings were generated from
    strategy,    \* the generator that emitted the bindings
    storage,     \* Global: mod storage, one static FnPtr per command
    inst,        \* Struct/Debug: the live instances, id -> (command -> FnPtr)
    op,          \* the operation performed last
    probed,      \* the calls of loadfn made by the last load, in order
    dispatched,  \* the calls through function pointers made by the last call
    stdout,      \* the lines printed by the last call (Debug)
    outcome,     \* how the last operation ended: returned value or panic
    lastFull,    \* loadfn and resulting table of the last aggregate load_with
    repeated,    \* the last two aggregate load_with calls had the same loadfn
    generator,   \* the generator whose write() is running
    dest,        \* what write() has written to its sink so far
    written,     \* write() has returned Ok(())
    failedAt,    \* the writeln! of write() for which the sink returned an error
    err,         \* write() has returned that error
    wasLoaded,   \* Global: the commands whose slot was loaded when the last
                 \* load began
    thr,         \* Global, threads: where each loading thread is in load_with
    serial,      \* no load_with has overlapped another operation so far
    raced        \* how the calling thread's call hit the stub for a command
                 \* that a load_with resolves ("no" when it did not)

vars == << registry, strategy, storage, inst, op, probed, dispatched, stdout,
           outcome, lastFull, repeated, generator, dest, written, failedAt,
           err, wasLoaded, thr, serial, raced >>

FnPtr(f, loaded) == [f |-> f, is_loaded |-> loaded]

Returned(v) == [kind |-> "returned", ret |-> v, msg |-> << >>]

Panicked(m) == [kind |-> "panic", ret |-> << >>, msg |-> m]

Op(name, i, cmd, args) == [name |-> name, inst |-> i, cmd |-> cmd, args |-> args]

\* a panic terminates the process: nothing runs after it
alive == outcome.kind # "panic"

(***************************************************************************)
(* common.rs                                                               *)
(***************************************************************************)
\* FnPtr::new without the null check on the pointer stored
FnPtr_new_global_unchecked(ptr) == FnPtr(ptr, ptr # NULL)

\* FnPtr::new of the Global variant
FnPtr_new_global(ptr) ==
    IF ptr = NULL
        THEN FnPtr(missing_fn_panic, FALSE)
        ELSE FnPtr(ptr, TRUE)

\* FnPtr::new of the Struct/Debug variant
FnPtr_new(ptr) ==
    IF ptr = NULL
        THEN FnPtr(missing_fn_panic, FALSE)
        ELSE FnPtr(ptr, TRUE)

\* FnPtr::is_loaded of the Struct/Debug variant
FnPtr_is_loaded(self) == self.is_loaded

\* the panic message of missing_fn_panic, as the pieces of its format string
missing_fn_panic_msg(reg) == << reg.api, " function was not loaded" >>

\* what a native entry point of this command hands back when it returns r
NativeReturn(cmd, r) == IF cmd.proto.ty = "()" THEN << >> ELSE << r >>

\* The wrapper of a command declares its parameters `params` and passes on
\* `idents`: each passed name denotes the argument bound to that parameter.
PassedArgs(params, idents, args) ==
    [i \in 1..Len(idents) |->
        args[CHOOSE k \in 1..Len(params) : params[k].ident = idents[i].ident]]

\* one call through a function pointer: the slot read, the pointer called,
\* the arguments passed, and what the callee handed back (a callee that
\* panics hands back nothing)
Dispatch(slot, f, args, returned, ret) ==
    [slot |-> slot, f |-> f, args |-> args, returned |-> returned, ret |-> ret]

Probe(sym, ptr) == [sym |-> sym, ptr |-> ptr]

(***************************************************************************)
(* global_gen.rs                                                           *)
(***************************************************************************)
\* `for &sym in fallbacks { ptr = loadfn(sym); if !ptr.is_null() { break; } }`
RECURSIVE metaloadfn_loop(_, _, _, _)
metaloadfn_loop(loadfn, fallbacks, i, acc) ==
    IF i > Len(fallbacks)
        THEN acc
        ELSE LET ptr == loadfn[fallbacks[i]]
                 nxt == [ptr |-> ptr,
                         probed |-> Append(acc.probed, Probe(fallbacks[i], ptr))]
             IN IF ptr # NULL
                    THEN nxt
                    ELSE metaloadfn_loop(loadfn, fallbacks, i + 1, nxt)

\* metaloadfn without the `break`: every fallback is probed, the last one wins
metaloadfn_no_break(loadfn, symbol, fallbacks) ==
    LET ptr == loadfn[symbol]
        n == Len(fallbacks)
        rest == [k \in 1..n |-> Probe(fallbacks[k], loadfn[fallbacks[k]])]
    IN IF ptr = NULL
           THEN [ptr |-> IF n = 0 THEN ptr ELSE loadfn[fallbacks[n]],
                 probed |-> << Probe(symbol, ptr) >> \o rest]
           ELSE [ptr |-> ptr, probed |-> << Probe(symbol, ptr) >>]

\* fn metaloadfn: the pointer found and the calls of loadfn made for it
metaloadfn(loadfn, symbol, fallbacks) ==
    LET ptr == loadfn[symbol]
        first == [ptr |-> ptr, probed |-> << Probe(symbol, ptr) >>]
    IN IF ptr = NULL
           THEN metaloadfn_loop(loadfn, fallbacks, 1, first)
           ELSE first

\* write_fn_mods: the `fallbacks` array emitted into a command's module
Global_fallbacks(reg, fnname) ==
    IF fnname \in DOMAIN reg.aliases
        THEN [k \in 1..Len(reg.aliases[fnname]) |->
                 gen_symbol_name(reg.api, reg.aliases[fnname][k])]
        ELSE << >>

\* statics that start out as null pointers
Global_storage_init_null(reg) ==
    [n \in CmdNames(reg) |-> FnPtr(NULL, FALSE)]

\* write_ptrs: the initial value of every static in mod storage
Global_storage_init(reg) ==
    [n \in CmdNames(reg) |-> FnPtr(missing_fn_panic, FALSE)]

\* <fnname>::is_loaded()
Global_is_loaded(st, fnname) == st[fnname].is_loaded

\* <fnname>::load_with that also puts every other slot back on the stub
Global_cmd_load_with_reset(reg, fnname, loadfn, st) ==
    LET r == metaloadfn(loadfn, gen_symbol_name(reg.api, fnname),
                        Global_fallbacks(reg, fnname))
    IN [storage |-> [n \in DOMAIN st.storage |->
                        IF n = fnname THEN FnPtr_new_global(r.ptr)
                                      ELSE FnPtr(missing_fn_panic, FALSE)],
        probed |-> st.probed \o r.probed]

\* <fnname>::load_with that keeps a slot that is already loaded
Global_cmd_load_with_cached(reg, fnname, loadfn, st) ==
    LET r == metaloadfn(loadfn, gen_symbol_name(reg.api, fnname),
                        Global_fallbacks(reg, fnname))
    IN [storage |-> IF st.storage[fnname].is_loaded
                        THEN st.storage
                        ELSE [st.storage EXCEPT ![fnname] = FnPtr_new_global(r.ptr)],
        probed |-> st.probed \o r.probed]

\* <fnname>::load_with(loadfn), on st = [storage, probed]
Global_cmd_load_with(reg, fnname, loadfn, st) ==
    LET r == metaloadfn(loadfn, gen_symbol_name(reg.api, fnname),
                        Global_fallbacks(reg, fnname))
    IN [storage |-> [st.storage EXCEPT ![fnname] = FnPtr_new_global(r.ptr)],
        probed |-> st.probed \o r.probed]

\* inner leaving out the commands whose slot is loaded already
RECURSIVE Global_inner_skip_loaded(_, _, _, _)
Global_inner_skip_loaded(reg, loadfn, i, st) ==
    IF i > Len(reg.cmds)
        THEN st
        ELSE Global_inner_skip_loaded(reg, loadfn, i + 1,
                 IF st.storage[reg.cmds[i].proto.ident].is_loaded
                     THEN st
                     ELSE Global_cmd_load_with(reg, reg.cmds[i].proto.ident, loadfn, st))

\* load_with's fn inner: one `<cmd>::load_with(&mut *loadfn);` per command
RECURSIVE Global_inner(_, _, _, _)
Global_inner(reg, loadfn, i, st) ==
    IF i > Len(reg.cmds)
        THEN st
        ELSE Global_inner(reg, loadfn, i + 1,
                 Global_cmd_load_with(reg, reg.cmds[i].proto.ident, loadfn, st))

\* the per-command loaders invoked last command first
RECURSIVE Global_inner_backwards(_, _, _, _)
Global_inner_backwards(reg, loadfn, i, st) ==
    IF i < 1
        THEN st
        ELSE Global_inner_backwards(reg, loadfn, i - 1,
                 Global_cmd_load_with(reg, reg.cmds[i].proto.ident, loadfn, st))

Global_load_with_backwards(reg, loadfn, st) ==
    Global_inner_backwards(reg, loadfn, Len(reg.cmds), st)

\* the aggregate load_with(loadfn)
Global_load_with(reg, loadfn, st) == Global_inner(reg, loadfn, 1, st)

\* the free function reading the slot as it was before any load
Global_fn_stale(reg, st, name, args, r) ==
    LET cmd == CmdOf(reg, name)
        f == Global_storage_init(reg)[name].f
        passed == PassedArgs(gen_parameters(cmd, TRUE, TRUE),
                             gen_parameters(cmd, TRUE, FALSE), args)
    IN IF f = missing_fn_panic
           THEN [dispatched |-> << Dispatch(name, f, passed, FALSE, << >>) >>,
                 stdout |-> << >>,
                 outcome |-> Panicked(missing_fn_panic_msg(reg))]
           ELSE [dispatched |-> << Dispatch(name, f, passed, TRUE, NativeReturn(cmd, r)) >>,
                 stdout |-> << >>,
                 outcome |-> Returned(NativeReturn(cmd, r))]

\* write_fns: the free function of a command, called with args; the native
\* entry point (if one is reached) returns r
Global_fn(reg, st, name, args, r) ==
    LET cmd == CmdOf(reg, name)
        f == st[name].f
        passed == PassedArgs(gen_parameters(cmd, TRUE, TRUE),
                             gen_parameters(cmd, TRUE, FALSE), args)
    IN IF f = missing_fn_panic
           THEN [dispatched |-> << Dispatch(name, f, passed, FALSE, << >>) >>,
                 stdout |-> << >>,
                 outcome |-> Panicked(missing_fn_panic_msg(reg))]
           ELSE [dispatched |-> << Dispatch(name, f, passed, TRUE, NativeReturn(cmd, r)) >>,
                 stdout |-> << >>,
                 outcome |-> Returned(NativeReturn(cmd, r))]

(***************************************************************************)
(* struct_gen.rs                                                           *)
(***************************************************************************)
\* `for &sym in symbols { ptr = loadfn(sym); if !ptr.is_null() { break; } }`
RECURSIVE Struct_do_metaloadfn_loop(_, _, _, _)
Struct_do_metaloadfn_loop(loadfn, symbols, i, acc) ==
    IF i > Len(symbols)
        THEN acc
        ELSE LET ptr == loadfn[symbols[i]]
                 nxt == [ptr |-> ptr,
                         probed |-> Append(acc.probed, Probe(symbols[i], ptr))]
             IN IF ptr # NULL
                    THEN nxt
                    ELSE Struct_do_metaloadfn_loop(loadfn, symbols, i + 1, nxt)

\* do_metaloadfn asking for the canonical symbol again before the fallbacks
Struct_do_metaloadfn_twice(loadfn, symbol, symbols) ==
    LET ptr == loadfn[symbol]
        first == [ptr |-> ptr, probed |-> << Probe(symbol, ptr) >>]
        again == [ptr |-> ptr, probed |-> << Probe(symbol, ptr), Probe(symbol, ptr) >>]
    IN IF ptr = NULL
           THEN Struct_do_metaloadfn_loop(loadfn, symbols, 1, again)
           ELSE first

\* fn do_metaloadfn inside load_with
Struct_do_metaloadfn(loadfn, symbol, symbols) ==
    LET ptr == loadfn[symbol]
        first == [ptr |-> ptr, probed |-> << Probe(symbol, ptr) >>]
    IN IF ptr = NULL
           THEN Struct_do_metaloadfn_loop(loadfn, symbols, 1, first)
           ELSE first

\* the `fallbacks` array emitted into a field initialiser
Struct_fallbacks(reg, name) ==
    IF name \in DOMAIN reg.aliases
        THEN [k \in 1..Len(reg.aliases[name]) |->
                 gen_symbol_name(reg.api, reg.aliases[name][k])]
        ELSE << >>

\* one field initialiser `name: FnPtr::new(metaloadfn(symbol, &[fallbacks]))`,
\* on st = [table, probed]
Struct_field(reg, name, loadfn, st) ==
    LET r == Struct_do_metaloadfn(loadfn, gen_symbol_name(reg.api, name),
                                  Struct_fallbacks(reg, name))
    IN [table |-> [n \in DOMAIN st.table \cup {name} |->
                      IF n = name THEN FnPtr_new(r.ptr) ELSE st.table[n]],
        probed |-> st.probed \o r.probed]

\* the struct expression of load_with: its fields are evaluated as written
RECURSIVE Struct_fields(_, _, _, _)
Struct_fields(reg, loadfn, i, st) ==
    IF i > Len(reg.cmds)
        THEN st
        ELSE Struct_fields(reg, loadfn, i + 1,
                 Struct_field(reg, reg.cmds[i].proto.ident, loadfn, st))

\* <Api>::load_with(loadfn): the new instance and the calls of loadfn
Struct_load_with(reg, loadfn) ==
    Struct_fields(reg, loadfn, 1, [table |-> << >>, probed |-> << >>])

\* the method passing its arguments on in reverse order
Struct_fn_reversed(reg, self, name, args, r) ==
    LET cmd == CmdOf(reg, name)
        f == self[name].f
        passed == [i \in 1..Len(args) |-> args[Len(args) + 1 - i]]
    IN IF f = missing_fn_panic
           THEN [dispatched |-> << Dispatch(name, f, passed, FALSE, << >>) >>,
                 stdout |-> << >>,
                 outcome |-> Panicked(missing_fn_panic_msg(reg))]
           ELSE [dispatched |-> << Dispatch(name, f, passed, TRUE, NativeReturn(cmd, r)) >>,
                 stdout |-> << >>,
                 outcome |-> Returned(NativeReturn(cmd, r))]

\* the method of a command on the instance self
Struct_fn(reg, self, name, args, r) ==
    LET cmd == CmdOf(reg, name)
        f == self[name].f
        passed == PassedArgs(gen_parameters(cmd, TRUE, TRUE),
                             gen_parameters(cmd, TRUE, FALSE), args)
    IN IF f = missing_fn_panic
           THEN [dispatched |-> << Dispatch(name, f, passed, FALSE, << >>) >>,
                 stdout |-> << >>,
                 outcome |-> Panicked(missing_fn_panic_msg(reg))]
           ELSE [dispatched |-> << Dispatch(name, f, passed, TRUE, NativeReturn(cmd, r)) >>,
                 stdout |-> << >>,
                 outcome |-> Returned(NativeReturn(cmd, r))]

(***************************************************************************)
(* debug_struct_gen.rs                                                     *)
(***************************************************************************)
RECURSIVE Debug_do_metaloadfn_loop(_, _, _, _)
Debug_do_metaloadfn_loop(loadfn, symbols, i, acc) ==
    IF i > Len(symbols)
        THEN acc
        ELSE LET ptr == loadfn[symbols[i]]
                 nxt == [ptr |-> ptr,
                         probed |-> Append(acc.probed, Probe(symbols[i], ptr))]
             IN IF ptr # NULL
                    THEN nxt
                    ELSE Debug_do_metaloadfn_loop(loadfn, symbols, i + 1, nxt)

\* fn do_metaloadfn inside load_with
Debug_do_metaloadfn(loadfn, symbol, symbols) ==
    LET ptr == loadfn[symbol]
        first == [ptr |-> ptr, probed |-> << Probe(symbol, ptr) >>]
    IN IF ptr = NULL
           THEN Debug_do_metaloadfn_loop(loadfn, symbols, 1, first)
           ELSE first

\* the fallbacks array written last alias first
Debug_fallbacks_reversed(reg, name) ==
    IF name \in DOMAIN reg.aliases
        THEN [k \in 1..Len(reg.aliases[name]) |->
                 gen_symbol_name(reg.api,
                     reg.aliases[name][Len(reg.aliases[name]) + 1 - k])]
        ELSE << >>

\* the `fallbacks` array emitted into a field initialiser
Debug_fallbacks(reg, name) ==
    IF name \in DOMAIN reg.aliases
        THEN [k \in 1..Len(reg.aliases[name]) |->
                 gen_symbol_name(reg.api, reg.aliases[name][k])]
        ELSE << >>

Debug_field(reg, name, loadfn, st) ==
    LET r == Debug_do_metaloadfn(loadfn, gen_symbol_name(reg.api, name),
                                 Debug_fallbacks(reg, name))
    IN [table |-> [n \in DOMAIN st.table \cup {name} |->
                      IF n = name THEN FnPtr_new(r.ptr) ELSE st.table[n]],
        probed |-> st.probed \o r.probed]

RECURSIVE Debug_fields(_, _, _, _)
Debug_fields(reg, loadfn, i, st) ==
    IF i > Len(reg.cmds)
        THEN st
        ELSE Debug_fields(reg, loadfn, i + 1,
                 Debug_field(reg, reg.cmds[i].proto.ident, loadfn, st))

Debug_load_with(reg, loadfn) ==
    Debug_fields(reg, loadfn, 1, [table |-> << >>, probed |-> << >>])

\* `ty.contains("GLDEBUGPROC")`, over the callback types of the type table
Contains_GLDEBUGPROC(ty) ==
    ty \in {"types::GLDEBUGPROC", "types::GLDEBUGPROCARB",
            "types::GLDEBUGPROCKHR", "types::GLDEBUGPROCAMD"}

\* print_err without the exception for GetError's own wrapper
Debug_print_err_everywhere(reg, cmd) ==
    \E i \in 1..Len(reg.cmds) : reg.cmds[i].proto.ident = "GetError"

\* whether the wrapper of cmd gets the GetError check (print_err is not empty)
Debug_print_err(reg, cmd) ==
    /\ cmd.proto.ident # "GetError"
    /\ \E i \in 1..Len(reg.cmds) : reg.cmds[i].proto.ident = "GetError"

\* whether the wrapper binds the call's value (`let r = `) and ends in `r`
Debug_let_r(reg, cmd) == cmd.proto.ty # "()" /\ Debug_print_err(reg, cmd)

Debug_return_r(reg, cmd) == cmd.proto.ty # "()" /\ Debug_print_err(reg, cmd)

\* the `println!("[OpenGL] name(...)")` line of a wrapper
Debug_println(cmd, args) ==
    LET params == gen_parameters(cmd, TRUE, TRUE)
        idents == gen_parameters(cmd, TRUE, FALSE)
        typed_params == gen_parameters(cmd, FALSE, TRUE)
        passed == PassedArgs(params, idents, args)
    IN [text |-> "[OpenGL] " \o cmd.proto.ident,
        shown |-> [i \in 1..Len(idents) |->
                      IF Contains_GLDEBUGPROC(typed_params[i].ty)
                          THEN "<callback>"
                          ELSE ToString(passed[i])]]

Debug_error_line(e) ==
    [text |-> "[OpenGL] ^ GL error triggered: ", shown |-> << ToString(e) >>]

\* the method of a command on the instance self; the command's native entry
\* point returns r and GetError's returns e (when they are reached)
Debug_fn(reg, self, name, args, r, e) ==
    LET cmd == CmdOf(reg, name)
        f == self[name].f
        passed == PassedArgs(gen_parameters(cmd, TRUE, TRUE),
                             gen_parameters(cmd, TRUE, FALSE), args)
        line == Debug_println(cmd, args)
        value == NativeReturn(cmd, r)
    IN IF f = missing_fn_panic
           THEN [dispatched |-> << Dispatch(name, f, passed, FALSE, << >>) >>,
                 stdout |-> << line >>,
                 outcome |-> Panicked(missing_fn_panic_msg(reg))]
       ELSE IF ~Debug_print_err(reg, cmd)
           THEN [dispatched |-> << Dispatch(name, f, passed, TRUE, value) >>,
                 stdout |-> << line >>,
                 outcome |-> Returned(value)]
       ELSE LET g == self["GetError"].f
                call == Dispatch(name, f, passed, TRUE, value)
            IN IF g = missing_fn_panic
                   THEN [dispatched |->
                             << call, Dispatch("GetError", g, << >>, FALSE, << >>) >>,
                         stdout |-> << line >>,
                         outcome |-> Panicked(missing_fn_panic_msg(reg))]
                   ELSE [dispatched |->
                             << call, Dispatch("GetError", g, << >>, TRUE, << e >>) >>,
                         stdout |-> IF e = 0 THEN << line >>
                                             ELSE << line, Debug_error_line(e) >>,
                         outcome |-> Returned(IF Debug_return_r(reg, cmd)
                                                  THEN value
                                                  ELSE << >>)]

(***************************************************************************)
(* What the generators write.  Every writeln! is one fragment, kept as the *)
(* values interpolated into its template; a return clause is kept as the   *)
(* text that follows the parameter list ("" when nothing is emitted).      *)
(***************************************************************************)
RECURSIVE Flatten(_)
Flatten(ss) == IF Len(ss) = 0 THEN << >> ELSE Head(ss) \o Flatten(Tail(ss))

\* the fragments written for each command in turn, F[i] for registry.cmds[i]
PerCmd(F) == Flatten(F)

\* common.rs
write_header(send) == << [what |-> "header", send |-> send] >>

write_type_aliases(reg) ==
    << [what |-> "types_open"], [what |-> "gen_types", api |-> reg.api],
       [what |-> "types_close"] >>

write_enums(reg) ==
    [i \in 1..Len(reg.enums) |-> [what |-> "enum", name |-> reg.enums[i]]]

write_fnptr_struct_def(global) == << [what |-> "FnPtr", global |-> global] >>

write_panicking_fns(reg) == << [what |-> "missing_fn_panic", api |-> reg.api] >>

\* the `/// Fallbacks:` line written for a command that has aliases
fallbacks_doc(reg, cmd) ==
    IF cmd.proto.ident \in DOMAIN reg.aliases
        THEN << [what |-> "fallbacks_doc", names |-> reg.aliases[cmd.proto.ident]] >>
        ELSE << >>

write_struct(reg, stat) ==
    IF stat
        THEN << [what |-> "struct_stub", api |-> reg.api] >>
        ELSE << [what |-> "struct_open", api |-> reg.api] >>
             \o PerCmd([i \in 1..Len(reg.cmds) |->
                    fallbacks_doc(reg, reg.cmds[i])
                    \o << [what |-> "field", name |-> reg.cmds[i].proto.ident] >>])
             \o << [what |-> "_priv"], [what |-> "struct_close"] >>

\* global_gen.rs
write_metaloadfn == << [what |-> "metaloadfn"] >>

\* the free function of a command: `-> {return_suffix}` is always written,
\* with return_suffix = cmd.proto.ty
Global_write_fn(cmd) ==
    [what |-> "fn", name |-> cmd.proto.ident,
     params |-> gen_parameters(cmd, TRUE, TRUE),
     typed_params |-> gen_parameters(cmd, FALSE, TRUE),
     idents |-> gen_parameters(cmd, TRUE, FALSE),
     decl_ret |-> "-> " \o cmd.proto.ty,
     cast_ret |-> "-> " \o cmd.proto.ty,
     let_r |-> "", return_r |-> ""]

Global_write_fns(reg) ==
    PerCmd([i \in 1..Len(reg.cmds) |->
        fallbacks_doc(reg, reg.cmds[i]) \o << Global_write_fn(reg.cmds[i]) >>])

write_ptrs(reg) ==
    << [what |-> "storage_open"] >>
    \o [i \in 1..Len(reg.cmds) |->
           [what |-> "static", name |-> reg.cmds[i].proto.ident,
            init |-> Global_storage_init(reg)[reg.cmds[i].proto.ident]]]
    \o << [what |-> "storage_close"] >>

write_fn_mods(reg) ==
    [i \in 1..Len(reg.cmds) |->
        [what |-> "mod", name |-> reg.cmds[i].proto.ident,
         symbol |-> gen_symbol_name(reg.api, reg.cmds[i].proto.ident),
         fallbacks |-> Global_fallbacks(reg, reg.cmds[i].proto.ident)]]

write_load_fn(reg) ==
    << [what |-> "load_with_open"] >>
    \o [i \in 1..Len(reg.cmds) |->
           [what |-> "load_with_call", name |-> reg.cmds[i].proto.ident]]
    \o << [what |-> "load_with_close"] >>

\* GlobalGenerator::write
Global_write(reg) ==
    write_header(FALSE) \o write_metaloadfn \o write_type_aliases(reg)
    \o write_enums(reg) \o Global_write_fns(reg) \o write_fnptr_struct_def(TRUE)
    \o write_ptrs(reg) \o write_fn_mods(reg) \o write_panicking_fns(reg)
    \o write_load_fn(reg)

\* struct_gen.rs
\* a return suffix that is written for every return type
return_suffix_always(cmd) == "-> " \o cmd.proto.ty

Struct_return_suffix(cmd) ==
    IF cmd.proto.ty = "()" THEN "" ELSE "-> " \o cmd.proto.ty

Struct_write_fn(cmd) ==
    [what |-> "fn", name |-> cmd.proto.ident,
     params |-> gen_parameters(cmd, TRUE, TRUE),
     typed_params |-> gen_parameters(cmd, FALSE, TRUE),
     idents |-> gen_parameters(cmd, TRUE, FALSE),
     decl_ret |-> Struct_return_suffix(cmd),
     cast_ret |-> Struct_return_suffix(cmd),
     let_r |-> "", return_r |-> ""]

Struct_write_impl(reg) ==
    << [what |-> "impl_open", api |-> reg.api] >>
    \o [i \in 1..Len(reg.cmds) |->
           [what |-> "field_init", name |-> reg.cmds[i].proto.ident,
            symbol |-> gen_symbol_name(reg.api, reg.cmds[i].proto.ident),
            fallbacks |-> Struct_fallbacks(reg, reg.cmds[i].proto.ident)]]
    \o << [what |-> "_priv"], [what |-> "load_with_close"] >>
    \o [i \in 1..Len(reg.cmds) |-> Struct_write_fn(reg.cmds[i])]
    \o << [what |-> "impl_close_send", api |-> reg.api] >>

\* StructGenerator::write
Struct_write(reg) ==
    write_header(TRUE) \o write_type_aliases(reg) \o write_enums(reg)
    \o write_fnptr_struct_def(FALSE) \o write_panicking_fns(reg)
    \o write_struct(reg, FALSE) \o Struct_write_impl(reg)

\* debug_struct_gen.rs
Debug_return_suffix(cmd) ==
    IF cmd.proto.ty = "()" THEN "" ELSE "-> " \o cmd.proto.ty

Debug_write_fn(reg, cmd) ==
    [what |-> "fn", name |-> cmd.proto.ident,
     params |-> gen_parameters(cmd, TRUE, TRUE),
     typed_params |-> gen_parameters(cmd, FALSE, TRUE),
     idents |-> gen_parameters(cmd, TRUE, FALSE),
     decl_ret |-> Debug_return_suffix(cmd),
     cast_ret |-> Debug_return_suffix(cmd),
     print_err |-> Debug_print_err(reg, cmd),
     let_r |-> IF Debug_let_r(reg, cmd) THEN "let r = " ELSE "",
     return_r |-> IF Debug_return_r(reg, cmd) THEN "r" ELSE ""]

Debug_write_impl(reg) ==
    << [what |-> "impl_open", api |-> reg.api] >>
    \o [i \in 1..Len(reg.cmds) |->
           [what |-> "field_init", name |-> reg.cmds[i].proto.ident,
            symbol |-> gen_symbol_name(reg.api, reg.cmds[i].proto.ident),
            fallbacks |-> Debug_fallbacks(reg, reg.cmds[i].proto.ident)]]
    \o << [what |-> "_priv"], [what |-> "load_with_close"] >>
    \o [i \in 1..Len(reg.cmds) |-> Debug_write_fn(reg, reg.cmds[i])]
    \o << [what |-> "impl_close_send", api |-> reg.api] >>

\* DebugStructGenerator::write
Debug_write(reg) ==
    write_header(TRUE) \o write_type_aliases(reg) \o write_enums(reg)
    \o write_fnptr_struct_def(FALSE) \o write_panicking_fns(reg)
    \o write_struct(reg, FALSE) \o Debug_write_impl(reg)

\* static_gen.rs
Static_return_suffix(cmd) ==
    IF cmd.proto.ty = "()" THEN "" ELSE "-> " \o cmd.proto.ty

Static_write_fns(reg) ==
    << [what |-> "extern_open"] >>
    \o [i \in 1..Len(reg.cmds) |->
           [what |-> "extern", name |-> reg.cmds[i].proto.ident,
            symbol |-> gen_symbol_name(reg.api, reg.cmds[i].proto.ident),
            params |-> gen_parameters(reg.cmds[i], TRUE, TRUE),
            decl_ret |-> Static_return_suffix(reg.cmds[i])]]
    \o << [what |-> "extern_close"] >>

\* StaticGenerator::write
Static_write(reg) ==
    write_header(FALSE) \o write_type_aliases(reg) \o write_enums(reg)
    \o Static_write_fns(reg)

\* static_struct_gen.rs
StaticStruct_write_struct(reg) == << [what |-> "struct_stub", api |-> reg.api] >>

\* the stub load_with and one method per command, `-> {return_suffix}` with
\* return_suffix = cmd.proto.ty
StaticStruct_write_impl(reg) ==
    << [what |-> "impl_open_stub", api |-> reg.api] >>
    \o [i \in 1..Len(reg.cmds) |->
           [what |-> "method", name |-> reg.cmds[i].proto.ident,
            typed_params |-> gen_parameters(reg.cmds[i], TRUE, TRUE),
            idents |-> gen_parameters(reg.cmds[i], TRUE, FALSE),
            decl_ret |-> "-> " \o reg.cmds[i].proto.ty]]
    \o << [what |-> "impl_close"] >>

StaticStruct_write_fns(reg) ==
    << [what |-> "extern_open"] >>
    \o [i \in 1..Len(reg.cmds) |->
           [what |-> "extern", name |-> reg.cmds[i].proto.ident,
            symbol |-> gen_symbol_name(reg.api, reg.cmds[i].proto.ident),
            params |-> gen_parameters(reg.cmds[i], TRUE, TRUE),
            decl_ret |-> "-> " \o reg.cmds[i].proto.ty]]
    \o << [what |-> "extern_close"] >>

\* StaticStructGenerator::write
StaticStruct_write(reg) ==
    write_header(FALSE) \o write_type_aliases(reg) \o write_enums(reg)
    \o StaticStruct_write_struct(reg) \o StaticStruct_write_impl(reg)
    \o StaticStruct_write_fns(reg)

Generators == {"Global", "Struct", "Debug", "Static", "StaticStruct"}

\* everything write() of a generator writes, in order
Output(gen, reg) ==
    IF gen = "Global" THEN Global_write(reg)
    ELSE IF gen = "Struct" THEN Struct_write(reg)
    ELSE IF gen = "Debug" THEN Debug_write(reg)
    ELSE IF gen = "Static" THEN Static_write(reg)
    ELSE StaticStruct_write(reg)

(***************************************************************************)
(* The bindings at run time.                                               *)
(***************************************************************************)
Strategies == {"Global", "Struct", "Debug"}

\* the instances a program holds: the wrappers and load_with work on one
\* instance at a time, so one instance besides it stands for all others
InstIds == {1, 2}

\* a new instance takes the next free id; a live one may be rebound
LoadTargets == {i \in InstIds : i \in DOMAIN inst \/ i = Cardinality(DOMAIN inst) + 1}

\* every instance variable made to hold the table just built
Bind_shared(insts, i, table) == [j \in DOMAIN insts \cup {i} |-> table]

\* `let gl_i = Gl::load_with(..)`: load_with returns the struct by value, and
\* it becomes the value of gl_i; the other instances are other values
Bind(insts, i, table) ==
    [j \in DOMAIN insts \cup {i} |-> IF j = i THEN table ELSE insts[j]]

NullProbe(reg) == [s \in AllSymbols(reg) |-> NULL]

Init ==
    /\ registry \in Registries
    /\ strategy \in Strategies
    /\ storage = IF strategy = "Global" THEN Global_storage_init(registry) ELSE << >>
    /\ inst = << >>
    /\ op = Op("start", 0, "", << >>)
    /\ probed = << >>
    /\ dispatched = << >>
    /\ stdout = << >>
    /\ outcome = Returned(<< >>)
    /\ lastFull = [valid |-> FALSE, loadfn |-> NullProbe(registry),
                   table |-> Global_storage_init(registry)]
    /\ repeated = FALSE
    /\ generator = "none" /\ dest = << >> /\ written = FALSE
    /\ failedAt = << >> /\ err = FALSE
    /\ wasLoaded = {}
    /\ thr = << >> /\ serial = TRUE /\ raced = "no"

\* an aggregate load_with with loadfn has produced table
RecordFull(loadfn, table) ==
    /\ lastFull' = [valid |-> TRUE, loadfn |-> loadfn, table |-> table]
    /\ repeated' = (lastFull.valid /\ lastFull.loadfn = loadfn)

\* the argument list tried: the wrappers pass their arguments on without
\* looking at them, so one list whose positions differ stands for all
ArgsOf(cmd) == {[i \in 1..Len(cmd.params) |-> i]}

RetsOf(cmd) == IF cmd.proto.ty = "()" THEN {0} ELSE NativeRets

\* gl::load_with(loadfn)
GlobalLoadWith ==
    /\ strategy = "Global" /\ alive
    /\ \E loadfn \in Probes(registry) :
          LET st == Global_load_with(registry, loadfn,
                                     [storage |-> storage, probed |-> << >>])
          IN /\ storage' = st.storage
             /\ probed' = st.probed
             /\ RecordFull(loadfn, st.storage)
    /\ op' = Op("load_with", 0, "", << >>)
    /\ outcome' = Returned(<< >>)
    /\ dispatched' = << >> /\ stdout' = << >>
    /\ UNCHANGED << registry, strategy, inst >>
    /\ wasLoaded' = {c \in CmdNames(registry) : Global_is_loaded(storage, c)}
    /\ UNCHANGED << generator, dest, written, failedAt, err, thr, serial, raced >>

\* gl::<cmd>::load_with(loadfn)
GlobalCmdLoadWith ==
    /\ strategy = "Global" /\ alive
    /\ \E c \in CmdNames(registry), loadfn \in Probes(registry) :
          LET st == Global_cmd_load_with(registry, c, loadfn,
                                         [storage |-> storage, probed |-> << >>])
          IN /\ storage' = st.storage
             /\ probed' = st.probed
             /\ op' = Op("cmd_load_with", 0, c, << >>)
    /\ outcome' = Returned(<< >>)
    /\ dispatched' = << >> /\ stdout' = << >>
    /\ UNCHANGED << registry, strategy, inst, lastFull, repeated >>
    /\ wasLoaded' = {c \in CmdNames(registry) : Global_is_loaded(storage, c)}
    /\ UNCHANGED << generator, dest, written, failedAt, err, thr, serial, raced >>

\* gl::<cmd>::is_loaded()
GlobalIsLoaded ==
    /\ strategy = "Global" /\ alive
    /\ \E c \in CmdNames(registry) :
          /\ op' = Op("is_loaded", 0, c, << >>)
          /\ outcome' = Returned(<< Global_is_loaded(storage, c) >>)
    /\ probed' = << >> /\ dispatched' = << >> /\ stdout' = << >>
    /\ UNCHANGED << registry, strategy, storage, inst, lastFull, repeated >>
    /\ wasLoaded' = {}
    /\ UNCHANGED << generator, dest, written, failedAt, err, thr, serial, raced >>

\* gl::<cmd>(args)
GlobalCall ==
    /\ strategy = "Global" /\ alive
    /\ \E c \in CmdNames(registry) :
          \E args \in ArgsOf(CmdOf(registry, c)), r \in RetsOf(CmdOf(registry, c)) :
             LET res == Global_fn(registry, storage, c, args, r)
             IN /\ op' = Op("call", 0, c, args)
                /\ dispatched' = res.dispatched
                /\ stdout' = res.stdout
                /\ outcome' = res.outcome
    /\ probed' = << >>
    /\ UNCHANGED << registry, strategy, storage, inst, lastFull, repeated >>
    /\ wasLoaded' = {}
    /\ UNCHANGED << generator, dest, written, failedAt, err, thr, serial, raced >>

\* let gl_i = Gl::load_with(loadfn), Struct bindings
StructLoadWith ==
    /\ strategy = "Struct" /\ alive
    /\ \E i \in LoadTargets, loadfn \in Probes(registry) :
          LET st == Struct_load_with(registry, loadfn)
          IN /\ inst' = Bind(inst, i, st.table)
             /\ probed' = st.probed
             /\ RecordFull(loadfn, st.table)
             /\ op' = Op("load_with", i, "", << >>)
    /\ outcome' = Returned(<< >>)
    /\ dispatched' = << >> /\ stdout' = << >>
    /\ UNCHANGED << registry, strategy, storage >>
    /\ wasLoaded' = {}
    /\ UNCHANGED << generator, dest, written, failedAt, err, thr, serial, raced >>

\* let gl_i = Gl::load_with(loadfn), Debug bindings
DebugLoadWith ==
    /\ strategy = "Debug" /\ alive
    /\ \E i \in LoadTargets, loadfn \in Probes(registry) :
          LET st == Debug_load_with(registry, loadfn)
          IN /\ inst' = Bind(inst, i, st.table)
             /\ probed' = st.probed
             /\ RecordFull(loadfn, st.table)
             /\ op' = Op("load_with", i, "", << >>)
    /\ outcome' = Returned(<< >>)
    /\ dispatched' = << >> /\ stdout' = << >>
    /\ UNCHANGED << registry, strategy, storage >>
    /\ wasLoaded' = {}
    /\ UNCHANGED << generator, dest, written, failedAt, err, thr, serial, raced >>

\* gl_i.<cmd>.is_loaded(), Struct and Debug bindings
FnPtrIsLoaded ==
    /\ strategy \in {"Struct", "Debug"} /\ alive
    /\ \E i \in DOMAIN inst, c \in CmdNames(registry) :
          /\ op' = Op("is_loaded", i, c, << >>)
          /\ outcome' = Returned(<< FnPtr_is_loaded(inst[i][c]) >>)
    /\ probed' = << >> /\ dispatched' = << >> /\ stdout' = << >>
    /\ UNCHANGED << registry, strategy, storage, inst, lastFull, repeated >>
    /\ wasLoaded' = {}
    /\ UNCHANGED << generator, dest, written, failedAt, err, thr, serial, raced >>

\* gl_i.<cmd>(args), Struct bindings
StructCall ==
    /\ strategy = "Struct" /\ alive
    /\ \E i \in DOMAIN inst, c \in CmdNames(registry) :
          \E args \in ArgsOf(CmdOf(registry, c)), r \in RetsOf(CmdOf(registry, c)) :
             LET res == Struct_fn(registry, inst[i], c, args, r)
             IN /\ op' = Op("call", i, c, args)
                /\ dispatched' = res.dispatched
                /\ stdout' = res.stdout
                /\ outcome' = res.outcome
    /\ probed' = << >>
    /\ UNCHANGED << registry, strategy, storage, inst, lastFull, repeated >>
    /\ wasLoaded' = {}
    /\ UNCHANGED << generator, dest, written, failedAt, err, thr, serial, raced >>

\* gl_i.<cmd>(args), Debug bindings
DebugCall ==
    /\ strategy = "Debug" /\ alive
    /\ \E i \in DOMAIN inst, c \in CmdNames(registry) :
          \E args \in ArgsOf(CmdOf(registry, c)), r \in RetsOf(CmdOf(registry, c)),
             e \in NativeRets :
             LET res == Debug_fn(registry, inst[i], c, args, r, e)
             IN /\ op' = Op("call", i, c, args)
                /\ dispatched' = res.dispatched
                /\ stdout' = res.stdout
                /\ outcome' = res.outcome
    /\ probed' = << >>
    /\ UNCHANGED << registry, strategy, storage, inst, lastFull, repeated >>
    /\ wasLoaded' = {}
    /\ UNCHANGED << generator, dest, written, failedAt, err, thr, serial, raced >>

Next ==
    \/ GlobalLoadWith
    \/ GlobalCmdLoadWith
    \/ GlobalIsLoaded
    \/ GlobalCall
    \/ StructLoadWith
    \/ DebugLoadWith
    \/ FnPtrIsLoaded
    \/ StructCall
    \/ DebugCall

Spec == Init /\ [][Next]_vars

(***************************************************************************)
(* A run of a generator: write() appends its fragments to the sink one by  *)
(* one and then returns Ok(()), or returns the error of the first write    *)
(* that the sink fails.                                                    *)
(***************************************************************************)
\* `expr?` on an io::Result: whether the function returns here, and with what
Question_ignored(res) == [returns |-> FALSE, value |-> "Ok"]

Question(res) == [returns |-> res = "Err", value |-> res]

InitGen ==
    /\ registry \in Registries
    /\ generator \in Generators
    /\ dest = << >>
    /\ written = FALSE
    /\ failedAt = << >>
    /\ err = FALSE
    /\ wasLoaded = {}
    /\ thr = << >> /\ serial = TRUE /\ raced = "no"
    /\ strategy = "none"
    /\ storage = << >>
    /\ inst = << >>
    /\ op = Op("start", 0, "", << >>)
    /\ probed = << >>
    /\ dispatched = << >>
    /\ stdout = << >>
    /\ outcome = Returned(<< >>)
    /\ lastFull = [valid |-> FALSE, loadfn |-> NullProbe(registry),
                   table |-> Global_storage_init(registry)]
    /\ repeated = FALSE

\* the writeln! that write() has come to: those written and the one that failed
NextWrite == Len(dest) + Len(failedAt) + 1

\* the next writeln! of write(), which the sink accepts
GenWrite ==
    /\ ~written /\ ~err
    /\ NextWrite <= Len(Output(generator, registry))
    /\ ~Question("Ok").returns
    /\ dest' = Append(dest, Output(generator, registry)[NextWrite])
    /\ UNCHANGED << registry, strategy, storage, inst, op, probed, dispatched,
                    stdout, outcome, lastFull, repeated, generator, written,
                    failedAt, err, wasLoaded, thr, serial, raced >>

\* the next writeln! of write(), for which the sink returns an error: the `?`
\* of the helper and the `?` of write() return it
GenWriteFails ==
    /\ ~written /\ ~err
    /\ failedAt = << >>
    /\ NextWrite <= Len(Output(generator, registry))
    /\ failedAt' = << NextWrite >>
    /\ err' = Question("Err").returns
    /\ UNCHANGED << registry, strategy, storage, inst, op, probed, dispatched,
                    stdout, outcome, lastFull, repeated, generator, dest,
                    written, wasLoaded, thr, serial, raced >>

\* write() returns Ok(())
GenReturn ==
    /\ ~written /\ ~err
    /\ NextWrite = Len(Output(generator, registry)) + 1
    /\ written' = TRUE
    /\ UNCHANGED << registry, strategy, storage, inst, op, probed, dispatched,
                    stdout, outcome, lastFull, repeated, generator, dest,
                    failedAt, err, wasLoaded, thr, serial, raced >>

NextGen == GenWrite \/ GenWriteFails \/ GenReturn

SpecGen == InitGen /\ [][NextGen]_vars

(***************************************************************************)
(* The statically linked bindings at run time (static_gen.rs,              *)
(* static_struct_gen.rs): every command is an `extern "system"` function   *)
(* that the linker binds to its symbol.                                    *)
(***************************************************************************)
StaticStrategies == {"Static", "StaticStruct"}

\* a stub load_with that resolves its fields as the Struct bindings do
StaticStruct_load_with_probing(reg, loadfn) == Struct_load_with(reg, loadfn)

\* <Api>::load_with(_loadfn) of the Static-Struct bindings: the body is the
\* unit struct `{api}`, which has no field
StaticStruct_load_with(reg, loadfn) == [table |-> << >>, probed |-> << >>]

\* the extern function of a command of the Static bindings, called with args
Static_fn(reg, name, args, r) ==
    LET cmd == CmdOf(reg, name)
        f == AddrOf(gen_symbol_name(reg.api, name))
    IN [dispatched |-> << Dispatch(name, f, args, TRUE, NativeReturn(cmd, r)) >>,
        stdout |-> << >>,
        outcome |-> Returned(NativeReturn(cmd, r))]

\* the method of a command of the Static-Struct bindings: `{name}({idents})`
StaticStruct_fn(reg, name, args, r) ==
    LET cmd == CmdOf(reg, name)
        f == AddrOf(gen_symbol_name(reg.api, name))
        passed == PassedArgs(gen_parameters(cmd, TRUE, TRUE),
                             gen_parameters(cmd, TRUE, FALSE), args)
    IN [dispatched |-> << Dispatch(name, f, passed, TRUE, NativeReturn(cmd, r)) >>,
        stdout |-> << >>,
        outcome |-> Returned(NativeReturn(cmd, r))]

InitStatic ==
    /\ registry \in Registries
    /\ strategy \in StaticStrategies
    /\ storage = << >>
    /\ inst = << >>
    /\ op = Op("start", 0, "", << >>)
    /\ probed = << >>
    /\ dispatched = << >>
    /\ stdout = << >>
    /\ outcome = Returned(<< >>)
    /\ lastFull = [valid |-> FALSE, loadfn |-> NullProbe(registry),
                   table |-> << >>]
    /\ repeated = FALSE
    /\ generator = "none" /\ dest = << >> /\ written = FALSE
    /\ failedAt = << >> /\ err = FALSE
    /\ wasLoaded = {}
    /\ thr = << >> /\ serial = TRUE /\ raced = "no"

\* let gl_i = Gl::load_with(loadfn), Static-Struct bindings
StaticStructLoadWith ==
    /\ strategy = "StaticStruct"
    /\ \E i \in LoadTargets, loadfn \in Probes(registry) :
          LET st == StaticStruct_load_with(registry, loadfn)
          IN /\ inst' = Bind(inst, i, st.table)
             /\ probed' = st.probed
             /\ RecordFull(loadfn, st.table)
             /\ op' = Op("load_with", i, "", << >>)
    /\ outcome' = Returned(<< >>)
    /\ dispatched' = << >> /\ stdout' = << >>
    /\ UNCHANGED << registry, strategy, storage >>
    /\ wasLoaded' = {}
    /\ UNCHANGED << generator, dest, written, failedAt, err, thr, serial, raced >>

\* gl_i.<cmd>(args), Static-Struct bindings
StaticStructCall ==
    /\ strategy = "StaticStruct"
    /\ \E i \in DOMAIN inst, c \in CmdNames(registry) :
          \E args \in ArgsOf(CmdOf(registry, c)), r \in RetsOf(CmdOf(registry, c)) :
             LET res == StaticStruct_fn(registry, c, args, r)
             IN /\ op' = Op("call", i, c, args)
                /\ dispatched' = res.dispatched
                /\ stdout' = res.stdout
                /\ outcome' = res.outcome
    /\ probed' = << >>
    /\ UNCHANGED << registry, strategy, storage, inst, lastFull, repeated >>
    /\ wasLoaded' = {}
    /\ UNCHANGED << generator, dest, written, failedAt, err, thr, serial, raced >>

\* gl::<cmd>(args), Static bindings
StaticCall ==
    /\ strategy = "Static"
    /\ \E c \in CmdNames(registry) :
          \E args \in ArgsOf(CmdOf(registry, c)), r \in RetsOf(CmdOf(registry, c)) :
             LET res == Static_fn(registry, c, args, r)
             IN /\ op' = Op("call", 0, c, args)
                /\ dispatched' = res.dispatched
                /\ stdout' = res.stdout
                /\ outcome' = res.outcome
    /\ probed' = << >>
    /\ UNCHANGED << registry, strategy, storage, inst, lastFull, repeated >>
    /\ wasLoaded' = {}
    /\ UNCHANGED << generator, dest, written, failedAt, err, thr, serial, raced >>

NextStatic == StaticStructLoadWith \/ StaticStructCall \/ StaticCall

SpecStatic == InitStatic /\ [][NextStatic]_vars

(***************************************************************************)
(* The Global bindings used from several threads.  mod storage is a set of *)
(* `static mut` slots that load_with writes and the command functions read *)
(* with no synchronization: a load_with is one slot write after the other  *)
(* (the calls of loadfn in between touch nothing shared), and the steps of *)
(* different threads interleave.  A panic unwinds the thread that called.  *)
(***************************************************************************)
\* the threads that call gl::load_with, once each; one more thread calls
\* commands
Loaders == {1, 2}

Idle == [pc |-> "idle", loadfn |-> << >>, next |-> 0]

Loading(t) == thr[t].pc = "loading"

\* loadfn answers one of the names of command c with an address
Resolves(reg, loadfn, c) ==
    \/ loadfn[gen_symbol_name(reg.api, c)] # NULL
    \/ \E k \in 1..Len(Global_fallbacks(reg, c)) :
          loadfn[Global_fallbacks(reg, c)[k]] # NULL

InitConc ==
    /\ registry \in Registries
    /\ strategy = "Global"
    /\ storage = Global_storage_init(registry)
    /\ inst = << >>
    /\ op = Op("start", 0, "", << >>)
    /\ probed = << >>
    /\ dispatched = << >>
    /\ stdout = << >>
    /\ outcome = Returned(<< >>)
    /\ lastFull = [valid |-> FALSE, loadfn |-> NullProbe(registry),
                   table |-> Global_storage_init(registry)]
    /\ repeated = FALSE
    /\ generator = "none" /\ dest = << >> /\ written = FALSE
    /\ failedAt = << >> /\ err = FALSE
    /\ wasLoaded = {}
    /\ thr = [t \in Loaders |-> Idle]
    /\ serial = TRUE
    /\ raced = "no"

\* thread t enters gl::load_with(loadfn) and inner(&mut loadfn)
ConcLoadStart ==
    /\ \E t \in Loaders, loadfn \in Probes(registry) :
          /\ thr[t].pc = "idle"
          /\ thr' = [thr EXCEPT ![t] = [pc |-> "loading", loadfn |-> loadfn,
                                        next |-> 1]]
          /\ serial' = (serial /\ \A u \in Loaders : ~Loading(u))
    /\ UNCHANGED << registry, strategy, storage, inst, op, probed, dispatched,
                    stdout, outcome, lastFull, repeated, generator, dest,
                    written, failedAt, err, wasLoaded, raced >>

\* thread t runs the next `<cmd>::load_with(&mut *loadfn);` of inner, which
\* writes the command's slot; after the last one load_with returns
ConcLoadStep ==
    /\ \E t \in Loaders :
          /\ Loading(t)
          /\ LET c == registry.cmds[thr[t].next].proto.ident
                 st == Global_cmd_load_with(registry, c, thr[t].loadfn,
                                            [storage |-> storage, probed |-> << >>])
                 last == thr[t].next = Len(registry.cmds)
             IN /\ storage' = st.storage
                /\ thr' = [thr EXCEPT ![t].next = @ + 1,
                                      ![t].pc = IF last THEN "done" ELSE @]
                /\ IF last
                       THEN RecordFull(thr[t].loadfn, st.storage)
                       ELSE UNCHANGED << lastFull, repeated >>
    /\ UNCHANGED << registry, strategy, inst, op, probed, dispatched, stdout,
                    outcome, generator, dest, written, failedAt, err,
                    wasLoaded, serial, raced >>

\* the calling thread calls gl::<cmd>(args)
ConcCall ==
    /\ alive
    /\ \E c \in CmdNames(registry) :
          \E args \in ArgsOf(CmdOf(registry, c)), r \in RetsOf(CmdOf(registry, c)) :
             LET res == Global_fn(registry, storage, c, args, r)
                 hit == res.outcome.kind = "panic"
             IN /\ op' = Op("call", 0, c, args)
                /\ dispatched' = res.dispatched
                /\ stdout' = res.stdout
                /\ outcome' = res.outcome
                /\ raced' =
                      IF hit /\ \E t \in Loaders :
                                   Loading(t) /\ Resolves(registry, thr[t].loadfn, c)
                          THEN "running"
                      ELSE IF hit /\ lastFull.valid
                                  /\ Resolves(registry, lastFull.loadfn, c)
                          THEN "returned"
                      ELSE "no"
    /\ serial' = (serial /\ \A u \in Loaders : ~Loading(u))
    /\ UNCHANGED << registry, strategy, storage, inst, probed, lastFull,
                    repeated, generator, dest, written, failedAt, err,
                    wasLoaded, thr >>

NextConc == ConcLoadStart \/ ConcLoadStep \/ ConcCall

SpecConc == InitConc /\ [][NextConc]_vars

(***************************************************************************)
(* What the properties below read off a state.                             *)
(***************************************************************************)
IsLoad == op.name \in {"load_with", "cmd_load_with"}

IsCall == op.name = "call"

\* the table the last operation worked on
CurTable == IF strategy = "Global" THEN storage ELSE inst[op.inst]

\* the commands the last load resolved
LoadedCmds ==
    IF op.name = "load_with" THEN CmdNames(registry)
    ELSE IF op.name = "cmd_load_with" THEN {op.cmd}
    ELSE {}

\* the names to try for a command: canonical symbol, then its fallbacks as
\* registered
ProbeSeq(c) ==
    << gen_symbol_name(registry.api, c) >> \o
    (IF c \in DOMAIN registry.aliases
         THEN [k \in 1..Len(registry.aliases[c]) |->
                  gen_symbol_name(registry.api, registry.aliases[c][k])]
         ELSE << >>)

IsSymbolOf(c, sym) == \E k \in 1..Len(ProbeSeq(c)) : ProbeSeq(c)[k] = sym

\* the calls of loadfn that asked for a name of command c, in the order made
Segment(c) == SelectSeq(probed, LAMBDA e : IsSymbolOf(c, e.sym))

(***************************************************************************)
(* C1: resolving a command probes its canonical symbol first, then, only   *)
(* after a null answer, its fallbacks in registered order, and stops at    *)
(* the first non-null answer, which is the address bound to the slot; no   *)
(* later name is probed.                                                   *)
(***************************************************************************)
C1_ResolutionOrder ==
    IsLoad =>
        \A c \in LoadedCmds :
            LET seg == Segment(c)
                names == ProbeSeq(c)
                n == Len(seg)
            IN /\ n >= 1 /\ n <= Len(names)
               /\ \A k \in 1..n :
                     /\ seg[k].sym = names[k]
                     /\ k < n => seg[k].ptr = NULL
               /\ seg[n].ptr = NULL => n = Len(names)
               /\ seg[n].ptr # NULL => CurTable[c].f = seg[n].ptr
               /\ op.name = "load_with" =>
                     \A k \in 1..n : seg[k].ptr = lastFull.loadfn[seg[k].sym]

\* a load stopped at the first fallback although the second would resolve too
C1_Witness ==
    /\ op.name = "load_with"
    /\ \E c \in CmdNames(registry) :
          /\ Len(ProbeSeq(c)) = 3
          /\ Len(Segment(c)) = 2
          /\ Segment(c)[1].ptr = NULL
          /\ CurTable[c].f = AddrOf(ProbeSeq(c)[2])
          /\ lastFull.loadfn[ProbeSeq(c)[3]] # NULL

(***************************************************************************)
(* C2: right after a load_with whose probe function resolves every symbol, *)
(* is_loaded() is true for all commands; right after one whose probe       *)
(* function resolves none, is_loaded() is false for all commands and every *)
(* slot holds the panicking stub.                                          *)
(***************************************************************************)
IsLoadedNow(c) ==
    IF strategy = "Global"
        THEN Global_is_loaded(storage, c)
        ELSE FnPtr_is_loaded(inst[op.inst][c])

ResolvesAll(loadfn) == \A s \in DOMAIN loadfn : loadfn[s] # NULL

ResolvesNone(loadfn) == \A s \in DOMAIN loadfn : loadfn[s] = NULL

C2_AllOrNothing ==
    op.name = "load_with" =>
        /\ ResolvesAll(lastFull.loadfn) =>
              \A c \in CmdNames(registry) : IsLoadedNow(c)
        /\ ResolvesNone(lastFull.loadfn) =>
              \A c \in CmdNames(registry) :
                  ~IsLoadedNow(c) /\ CurTable[c].f = missing_fn_panic

C2_Witness ==
    /\ op.name = "load_with"
    /\ ResolvesNone(lastFull.loadfn)
    /\ \A c \in CmdNames(registry) : CurTable[c].f = missing_fn_panic

(***************************************************************************)
(* C3: an unresolved symbol never fails load_with; after a load, invoking  *)
(* a command is fatal exactly when that command's slot is unloaded, so a   *)
(* loaded command is never fatal because other commands are unloaded.      *)
(* Stated as claimed; the Debug wrapper's GetError check refutes it.       *)
(***************************************************************************)
C3_FatalIffUnloaded ==
    /\ IsLoad => outcome.kind = "returned"
    /\ IsCall => (outcome.kind = "panic" <=> ~CurTable[op.cmd].is_loaded)

(***************************************************************************)
(* C4: in the Global bindings, invoking a command that no probe resolved   *)
(* panics with a message that names the invoked command.  Stated as        *)
(* claimed; the message of missing_fn_panic names the API only.            *)
(***************************************************************************)
C4_PanicNamesCommand ==
    (strategy = "Global" /\ IsCall /\ ~Global_is_loaded(storage, op.cmd)) =>
        /\ outcome.kind = "panic"
        /\ \E k \in 1..Len(outcome.msg) : outcome.msg[k] = op.cmd

(***************************************************************************)
(* C5: a command that load_with resolved, through its canonical symbol or  *)
(* through a fallback, is loaded and bound to the address the winning      *)
(* probe returned; each invocation of a loaded command performs exactly    *)
(* one dispatch through its slot's address, first of all, with the         *)
(* caller's arguments in declared order.                                   *)
(***************************************************************************)
\* the dispatches of the last call that went through the slot of command c
DispatchesOf(c) == SelectSeq(dispatched, LAMBDA d : d.slot = c)

C5_ResolvedDispatch ==
    /\ IsLoad =>
          \A c \in LoadedCmds :
              \A k \in 1..Len(Segment(c)) :
                  Segment(c)[k].ptr # NULL =>
                      /\ IsLoadedNow(c)
                      /\ CurTable[c].f = Segment(c)[k].ptr
                      /\ CurTable[c].f = AddrOf(ProbeSeq(c)[k])
    /\ (IsCall /\ IsLoadedNow(op.cmd)) =>
          /\ Len(DispatchesOf(op.cmd)) = 1
          /\ dispatched[1].slot = op.cmd
          /\ dispatched[1].f = CurTable[op.cmd].f
          /\ IsSymbolOf(op.cmd, CHOOSE s \in AllSymbols(registry) :
                                    AddrOf(s) = dispatched[1].f)
          /\ dispatched[1].args = op.args
          /\ dispatched[1].returned

\* Bar, resolved through its fallback BarEXT only, was called with (1, 2)
C5_Witness ==
    /\ IsCall /\ op.cmd = "Bar" /\ op.args = << 1, 2 >>
    /\ CurTable["Bar"].f = AddrOf("glBarEXT")
    /\ dispatched = << Dispatch("Bar", AddrOf("glBarEXT"), << 1, 2 >>, TRUE,
                                dispatched[1].ret) >>
    /\ outcome.kind = "returned"

(***************************************************************************)
(* C6: an aggregate load_with that is given the same probe function as the *)
(* aggregate load_with before it yields a table with the same loaded       *)
(* flags and the same addresses as that one did (for Global whatever       *)
(* per-command loads happened in between).                                 *)
(***************************************************************************)
C6_Idempotent ==
    [][(op'.name = "load_with" /\ lastFull.valid
          /\ lastFull'.loadfn = lastFull.loadfn)
       => (IF strategy = "Global" THEN storage' ELSE inst'[op'.inst])
              = lastFull.table]_vars

\* a second aggregate load with the same probe function, which resolves some
\* command and leaves another unresolved
C6_Witness ==
    /\ strategy = "Global" /\ op.name = "load_with" /\ repeated
    /\ \E c, d \in CmdNames(registry) :
          CurTable[c].is_loaded /\ ~CurTable[d].is_loaded

(***************************************************************************)
(* C8: a call through a Debug wrapper performs the underlying dispatch     *)
(* exactly once and ends as that dispatch ended: it returns the value the  *)
(* dispatch returned, which is what the Struct method does in the same     *)
(* instance state.  Stated as claimed; a wrapper whose GetError check hits *)
(* an unloaded GetError panics after a dispatch that returned.             *)
(***************************************************************************)
C8_DebugObservational ==
    (strategy = "Debug" /\ IsCall) =>
        /\ Len(DispatchesOf(op.cmd)) = 1
        /\ dispatched[1].slot = op.cmd
        /\ \A r \in NativeRets :
              NativeReturn(CmdOf(registry, op.cmd), r) = dispatched[1].ret =>
                  outcome = Struct_fn(registry, inst[op.inst], op.cmd,
                                      op.args, r).outcome

(***************************************************************************)
(* C9 as claimed: every Debug wrapper, after the underlying call, calls    *)
(* GetError once exactly when the registry has a command GetError, and     *)
(* prints the error line exactly when that call returns non-zero.          *)
(***************************************************************************)
HasGetError == "GetError" \in CmdNames(registry)

\* the calls the wrapper made after the underlying one
PostCalls == Tail(dispatched)

ErrorLines == SelectSeq(stdout, LAMBDA l : l.text = "[OpenGL] ^ GL error triggered: ")

C9_CheckInEveryWrapper ==
    (strategy = "Debug" /\ IsCall /\ dispatched[1].returned) =>
        /\ HasGetError => Len(PostCalls) = 1 /\ PostCalls[1].slot = "GetError"
        /\ ~HasGetError => PostCalls = << >>
        /\ Len(ErrorLines) = 1 <=>
              \E k \in 1..Len(PostCalls) :
                  PostCalls[k].returned /\ PostCalls[k].ret # << 0 >>

(***************************************************************************)
(* C9 amended: the Debug wrapper of every command other than GetError,     *)
(* once the underlying call has returned, calls GetError once exactly when *)
(* the registry has a command GetError, and prints the error line exactly  *)
(* when that call returns non-zero; GetError's own wrapper, and every      *)
(* wrapper of a registry without GetError, makes no call after the         *)
(* underlying one and prints no error line.                                *)
(***************************************************************************)
C9_CheckExceptGetError ==
    (strategy = "Debug" /\ IsCall /\ dispatched[1].returned) =>
        IF HasGetError /\ op.cmd # "GetError"
            THEN /\ Len(PostCalls) = 1
                 /\ PostCalls[1].slot = "GetError"
                 /\ PostCalls[1].f = inst[op.inst]["GetError"].f
                 /\ PostCalls[1].args = << >>
                 /\ Len(ErrorLines) =
                        (IF PostCalls[1].returned /\ PostCalls[1].ret # << 0 >>
                             THEN 1 ELSE 0)
                 /\ Len(stdout) = 1 + Len(ErrorLines)
            ELSE /\ PostCalls = << >>
                 /\ ErrorLines = << >>
                 /\ Len(stdout) = 1

\* a wrapper's GetError check returned non-zero and the error line followed
C9_Witness ==
    /\ strategy = "Debug" /\ IsCall /\ op.cmd = "Baz"
    /\ Len(dispatched) = 2
    /\ dispatched[2].slot = "GetError" /\ dispatched[2].ret = << 1 >>
    /\ Len(stdout) = 2
    /\ outcome = Returned(dispatched[1].ret)

(***************************************************************************)
(* C10: an aggregate load_with processes every command of the registry     *)
(* exactly once and in registration order: all probes for command i come   *)
(* before any probe for command i+1.                                       *)
(***************************************************************************)
\* the position in registry.cmds of the command that owns a probed name
OwnerIndex(sym) ==
    CHOOSE i \in 1..Len(registry.cmds) : IsSymbolOf(registry.cmds[i].proto.ident, sym)

CanonicalProbes(c) ==
    SelectSeq(probed, LAMBDA e : e.sym = gen_symbol_name(registry.api, c))

C10_RegistrationOrder ==
    op.name = "load_with" =>
        /\ \A c \in CmdNames(registry) : Len(CanonicalProbes(c)) = 1
        /\ \A j, k \in 1..Len(probed) :
              j < k => OwnerIndex(probed[j].sym) <= OwnerIndex(probed[k].sym)
        /\ \A c \in CmdNames(registry) :
              CurTable[c] = (IF strategy = "Global" THEN FnPtr_new_global(Segment(c)[Len(Segment(c))].ptr)
                             ELSE FnPtr_new(Segment(c)[Len(Segment(c))].ptr))

\* the first command took three probes, then the second command was probed
C10_Witness ==
    /\ op.name = "load_with"
    /\ Len(probed) = 4
    /\ OwnerIndex(probed[3].sym) = 1
    /\ OwnerIndex(probed[4].sym) = 2

(***************************************************************************)
(* C7 as claimed: for a command whose return type is "()" every generator  *)
(* omits the return clause in everything it writes for the command, and    *)
(* for every other return type every generator writes it.                  *)
(***************************************************************************)
\* the fragments that declare, cast to or call a command
IsFnFragment(f) == f.what \in {"fn", "extern", "method"}

\* the return clauses a fragment carries
ReturnClauses(f) ==
    IF f.what = "fn" THEN {f.decl_ret, f.cast_ret} ELSE {f.decl_ret}

ReturnTypeOf(f) == CmdOf(registry, f.name).proto.ty

C7_SentinelOmittedEverywhere ==
    \A k \in 1..Len(dest) :
        IsFnFragment(dest[k]) =>
            IF ReturnTypeOf(dest[k]) = "()"
                THEN ReturnClauses(dest[k]) = {""}
                ELSE ReturnClauses(dest[k]) = {"-> " \o ReturnTypeOf(dest[k])}

(***************************************************************************)
(* C7 amended: for a command whose return type is "()" the Struct, Debug   *)
(* and Static generators omit the return clause in everything they write   *)
(* for the command (and Debug writes neither `let r =` nor the final `r`), *)
(* while the Global and Static-Struct generators write the clause `-> ()`; *)
(* for every other return type every generator writes `-> type` in every   *)
(* declaration and cast of the command.                                    *)
(***************************************************************************)
C7_SentinelOmittedOrExplicit ==
    \A k \in 1..Len(dest) :
        IsFnFragment(dest[k]) =>
            IF ReturnTypeOf(dest[k]) = "()" /\ generator \in {"Struct", "Debug", "Static"}
                THEN /\ ReturnClauses(dest[k]) = {""}
                     /\ dest[k].what = "fn" => dest[k].let_r = "" /\ dest[k].return_r = ""
                ELSE ReturnClauses(dest[k]) = {"-> " \o ReturnTypeOf(dest[k])}

\* the Struct generator has written the method of Foo, which returns nothing
C7_Witness ==
    /\ generator = "Struct"
    /\ \E k \in 1..Len(dest) :
          /\ dest[k].what = "fn" /\ dest[k].name = "Foo"
          /\ dest[k].decl_ret = "" /\ dest[k].cast_ret = ""

(***************************************************************************)
(* C11 as claimed: each statically linked strategy has a load_with, which  *)
(* is a no-op stub: it makes no call of the probe function, always         *)
(* returns, and the instance it returns holds no per-command state.        *)
(***************************************************************************)
\* whether the text a generator writes defines a load_with
Emits_load_with(gen, reg) ==
    \E k \in 1..Len(Output(gen, reg)) :
        Output(gen, reg)[k].what \in {"impl_open_stub", "load_with_open", "load_with_close"}

StubLoadWith ==
    op.name = "load_with" =>
        /\ probed = << >>
        /\ outcome = Returned(<< >>)
        /\ inst[op.inst] = << >>
        /\ \A loadfn \in Probes(registry) :
              StaticStruct_load_with(registry, loadfn).table = inst[op.inst]

C11_StaticLoadWithStub ==
    /\ Emits_load_with(strategy, registry)
    /\ StubLoadWith

(***************************************************************************)
(* C11 amended: of the statically linked strategies only Static-Struct has *)
(* a load_with (the Static bindings are the extern functions alone); it is *)
(* a no-op stub: it makes no call of the probe function whatever symbols   *)
(* the probe function would resolve, always returns, and the instance it   *)
(* returns is the field-less unit struct, the same for every probe         *)
(* function; commands are callable with or without it.                     *)
(***************************************************************************)
C11_StaticStructLoadWithStub ==
    /\ Emits_load_with(strategy, registry) <=> strategy = "StaticStruct"
    /\ op.name = "load_with" => strategy = "StaticStruct"
    /\ StubLoadWith
    /\ IsCall => outcome.kind = "returned" /\ Len(dispatched) = 1

\* the stub was given a probe function that resolves every symbol
C11_Witness ==
    /\ strategy = "StaticStruct" /\ op.name = "load_with"
    /\ ResolvesAll(lastFull.loadfn)
    /\ inst[op.inst] = << >> /\ probed = << >>

(***************************************************************************)
(* C12: the probe function is called only by a load_with; a load pass asks *)
(* only for names of the commands it loads, asks for the canonical symbol  *)
(* of each of them exactly once and for each fallback at most once;        *)
(* calling a command or is_loaded() makes no call of the probe function;   *)
(* and what load_with leaves behind (storage, the instance) holds          *)
(* function-pointer slots only, never the probe function.                  *)
(***************************************************************************)
\* how often the last operation asked the probe function for sym
TimesProbed(sym) == Len(SelectSeq(probed, LAMBDA e : e.sym = sym))

\* the tables the bindings keep between operations
KeptTables == IF strategy = "Global" THEN {storage} ELSE {inst[i] : i \in DOMAIN inst}

C12_ProbeOnlyInLoad ==
    /\ ~IsLoad => probed = << >>
    /\ IsLoad =>
          /\ \A k \in 1..Len(probed) :
                \E c \in LoadedCmds : IsSymbolOf(c, probed[k].sym)
          /\ \A c \in LoadedCmds :
                /\ TimesProbed(ProbeSeq(c)[1]) = 1
                /\ \A k \in 2..Len(ProbeSeq(c)) : TimesProbed(ProbeSeq(c)[k]) <= 1
    /\ \A t \in KeptTables :
          /\ DOMAIN t = CmdNames(registry)
          /\ \A c \in DOMAIN t : DOMAIN t[c] = {"f", "is_loaded"}

\* a pass that had to ask for every name of an aliased command, once each
C12_Witness ==
    /\ strategy = "Struct" /\ op.name = "load_with"
    /\ \E c \in DOMAIN registry.aliases :
          /\ Len(Segment(c)) = Len(ProbeSeq(c))
          /\ Len(ProbeSeq(c)) > 1
          /\ \A k \in 1..Len(ProbeSeq(c)) : TimesProbed(ProbeSeq(c)[k]) = 1

(***************************************************************************)
(* C13: when the sink fails a write of a generator's write(), write()      *)
(* returns the error at once: nothing is written after the failed write    *)
(* (what the sink holds is exactly what was written before it), and        *)
(* write() never returns Ok(()) once a write has failed.                   *)
(***************************************************************************)
C13_SinkFailurePropagates ==
    failedAt # << >> =>
        /\ err
        /\ ~written
        /\ Len(dest) = failedAt[1] - 1
        /\ \A k \in 1..Len(dest) : dest[k] = Output(generator, registry)[k]

\* the sink failed in the middle of the Struct generator's write_impl
C13_Witness ==
    /\ generator = "Struct" /\ err
    /\ failedAt # << >>
    /\ Len(dest) >= 1 /\ dest[Len(dest)].what = "field_init"
    /\ Output(generator, registry)[failedAt[1]].what = "field_init"

(***************************************************************************)
(* C14: load_with keeps nothing from earlier loads: every load asks for    *)
(* the canonical symbol of every command it loads, whether or not the slot *)
(* was loaded before, and each slot it writes ends as this load's probe    *)
(* answers alone determine: bound to the first non-null answer among the   *)
(* command's names, or, when all are null, unloaded and bound to the       *)
(* panicking stub, also when the slot was loaded before.                   *)
(***************************************************************************)
\* the answers the last load got for the names of command c
AnswersFor(c) == [k \in 1..Len(Segment(c)) |-> Segment(c)[k].ptr]

\* the first non-null answer, if any
FirstHit(answers) ==
    LET hits == {k \in 1..Len(answers) : answers[k] # NULL}
    IN IF hits = {}
           THEN NULL
           ELSE answers[CHOOSE k \in hits : \A j \in hits : k <= j]

C14_NoCaching ==
    IsLoad =>
        \A c \in LoadedCmds :
            /\ TimesProbed(ProbeSeq(c)[1]) = 1
            /\ CurTable[c].is_loaded <=> FirstHit(AnswersFor(c)) # NULL
            /\ CurTable[c].f = (IF FirstHit(AnswersFor(c)) = NULL
                                    THEN missing_fn_panic
                                    ELSE FirstHit(AnswersFor(c)))
            /\ op.name = "load_with" =>
                  Len(Segment(c)) = Len(ProbeSeq(c))
                  \/ lastFull.loadfn[ProbeSeq(c)[Len(Segment(c))]] # NULL

\* an aggregate load of the Global bindings found a loaded slot, probed all
\* of its names again, got null for each, and left it unloaded
C14_Witness ==
    /\ strategy = "Global" /\ op.name = "load_with"
    /\ \E c \in wasLoaded :
          /\ Len(Segment(c)) = Len(ProbeSeq(c))
          /\ Len(ProbeSeq(c)) > 1
          /\ ~Global_is_loaded(storage, c)
          /\ storage[c].f = missing_fn_panic

(***************************************************************************)
(* C15: in the Struct and Debug bindings no operation on an instance that  *)
(* load_with has returned (calling a command, loaded or not, or asking     *)
(* is_loaded()) changes the address or the loaded flag of any slot of any  *)
(* instance, and a load_with that builds another instance leaves the       *)
(* slots of the instances that exist unchanged.                            *)
(***************************************************************************)
C15_SlotsReadOnly ==
    [][(strategy \in {"Struct", "Debug"}) =>
          (\A i \in DOMAIN inst :
              (op'.name \in {"call", "is_loaded"}
                  \/ (op'.name = "load_with" /\ op'.inst # i))
              => (i \in DOMAIN inst' /\ inst'[i] = inst[i]))]_vars

\* a second instance was loaded with other results than the first, which
\* still has a loaded slot
C15_Witness ==
    /\ strategy \in {"Struct", "Debug"}
    /\ op.name = "load_with" /\ op.inst = 2
    /\ inst[1] # inst[2]
    /\ \E c \in CmdNames(registry) :
          inst[1][c].is_loaded /\ ~inst[2][c].is_loaded

(***************************************************************************)
(* C16: with the Global bindings used from several threads, a state is     *)
(* reachable in which a call has hit the panicking stub for a command that *)
(* a running load_with resolves, and the table left by two overlapping     *)
(* load_with calls is the result of neither; as long as every load_with    *)
(* runs alone (no other load_with and no call overlaps it) a call hits the *)
(* stub for no command that a running or the last returned load_with       *)
(* resolves, and between loads the table is the one the last returned      *)
(* load_with makes (the initial one before any).                           *)
(***************************************************************************)
\* the table an aggregate load_with with loadfn makes when it runs alone
TableOf(loadfn) ==
    Global_load_with(registry, loadfn,
                     [storage |-> Global_storage_init(registry),
                      probed |-> << >>]).storage

Quiescent == \A t \in Loaders : ~Loading(t)

C16_SerializedLoadsAreSafe ==
    serial =>
        /\ raced = "no"
        /\ Quiescent =>
              storage = (IF lastFull.valid THEN TableOf(lastFull.loadfn)
                                            ELSE Global_storage_init(registry))

\* a call panicked on a command that a running load resolves, and the two
\* loads have left a table that neither of them makes alone
C16_Witness ==
    /\ raced = "running"
    /\ outcome.kind = "panic"
    /\ \A t \in Loaders : thr[t].pc = "done"
    /\ \A t \in Loaders : storage # TableOf(thr[t].loadfn)
    /\ ~serial

(***************************************************************************)
(* C17: in every state of the Global, Struct and Debug bindings, Global's  *)
(* state before any load included, every slot's pointer is not null; the   *)
(* slot is loaded exactly when its pointer is the address a probe returned *)
(* for one of the command's names, and unloaded exactly when its pointer   *)
(* is the panicking stub.                                                  *)
(***************************************************************************)
\* the addresses a probe function can return for the names of command c
ProbeAddrs(c) == {AddrOf(ProbeSeq(c)[k]) : k \in 1..Len(ProbeSeq(c))}

C17_SlotInvariant ==
    \A t \in KeptTables :
        \A c \in CmdNames(registry) :
            /\ t[c].f # NULL
            /\ t[c].is_loaded <=> t[c].f \in ProbeAddrs(c)
            /\ ~t[c].is_loaded <=> t[c].f = missing_fn_panic

\* after a per-command load one Global slot holds a probed address while
\* another still holds the stub it started with
C17_Witness ==
    /\ strategy = "Global" /\ op.name = "cmd_load_with"
    /\ ~lastFull.valid
    /\ storage[op.cmd].is_loaded /\ storage[op.cmd].f \in ProbeAddrs(op.cmd)
    /\ \E d \in CmdNames(registry) :
          ~storage[d].is_loaded /\ storage[d].f = missing_fn_panic

(***************************************************************************)
(* C18: in the Global bindings a per-command load_with of command c asks   *)
(* the probe function only for c's canonical symbol and c's fallbacks and  *)
(* writes only c's slot: the pointer and the loaded flag of every other    *)
(* command's slot stay as they were.                                       *)
(***************************************************************************)
C18_PerCommandFrame ==
    [][(op'.name = "cmd_load_with") =>
          (/\ \A d \in CmdNames(registry) \ {op'.cmd} : storage'[d] = storage[d]
           /\ \A k \in 1..Len(probed') :
                 \E j \in 1..Len(ProbeSeq(op'.cmd)) :
                     ProbeSeq(op'.cmd)[j] = probed'[k].sym
           /\ Len(probed') >= 1)]_vars

\* a per-command load changed its own slot and left alone a slot that the
\* aggregate load before it had loaded
C18_Witness ==
    /\ strategy = "Global" /\ op.name = "cmd_load_with"
    /\ lastFull.valid
    /\ storage[op.cmd] # lastFull.table[op.cmd]
    /\ \E d \in CmdNames(registry) \ {op.cmd} :
          storage[d].is_loaded /\ storage[d] = lastFull.table[d]

(***************************************************************************)
(* C19: for the registry and the probe function of any aggregate           *)
(* load_with, the load_with of the Global, of the Struct and of the Debug  *)
(* bindings ask for the same names in the same order (each the             *)
(* gen_symbol_name of a command or of one of its aliases), get the same    *)
(* answers, and end with the same loaded flag and address in every slot;   *)
(* and that is what the load that ran asked for and left.                  *)
(***************************************************************************)
\* the names gen_symbol_name makes of the registry's commands and aliases
DecoratedNames ==
    {gen_symbol_name(registry.api, c) : c \in CmdNames(registry)}
    \cup UNION {{gen_symbol_name(registry.api, registry.aliases[c][k]) :
                    k \in 1..Len(registry.aliases[c])} : c \in DOMAIN registry.aliases}

C19_SameResolution ==
    op.name = "load_with" =>
        LET g == Global_load_with(registry, lastFull.loadfn,
                                  [storage |-> Global_storage_init(registry),
                                   probed |-> << >>])
            t == Struct_load_with(registry, lastFull.loadfn)
            d == Debug_load_with(registry, lastFull.loadfn)
        IN /\ g.probed = t.probed /\ t.probed = d.probed
           /\ g.storage = t.table /\ t.table = d.table
           /\ probed = g.probed
           /\ CurTable = g.storage
           /\ \A k \in 1..Len(probed) : probed[k].sym \in DecoratedNames

\* a load of the Debug bindings that resolved a command through its last
\* fallback after null answers for the names before it
C19_Witness ==
    /\ strategy = "Debug" /\ op.name = "load_with"
    /\ \E c \in DOMAIN registry.aliases :
          /\ Len(Segment(c)) = Len(ProbeSeq(c))
          /\ Len(ProbeSeq(c)) > 2
          /\ inst[op.inst][c].is_loaded
          /\ inst[op.inst][c].f = AddrOf(ProbeSeq(c)[Len(ProbeSeq(c))])

=============================================================================
